---- MODULE Spec2Model ----
(***************************************************************************)
(* Model of the object-storage access layer of the image server            *)
(* (src/unnamed/part_000): credential resolution (getS3, getS3Hmac),       *)
(* endpoint resolution (findBucketEndpoint), rebinding of the shared       *)
(* client's endpoint (configureEndpoint), the startup callback and the     *)
(* bucket routes.                                                          *)
(*                                                                         *)
(* Encoding of JavaScript values:                                          *)
(*   - a value that may be undefined is a sequence of length <= 1:         *)
(*     <<>> is undefined, <<v>> is the value v;                            *)
(*   - a string is a tuple of strings, "" is <<>>; the strings the code     *)
(*     takes apart (bucket names, location constraints, region keys) are   *)
(*     tuples of one-character strings;                                    *)
(*   - the result of a call that may throw is [kind, value]: kind is       *)
(*     "return" or "throw", and a thrown value is <<error class, message>>.*)
(***************************************************************************)
EXTENDS Integers, Sequences, FiniteSets, TLC

VARIABLES
    boot,        \* position of the app.listen callback
    alive,       \* FALSE once an unhandled rejection has ended the process
    s3,          \* the global client handle: <<>> until line 395 assigns it
    endpoints,   \* the global endpoint directory: <<>> until line 396 assigns it
    fetches,     \* number of GETs of the endpoint directory issued so far
    req,         \* the requests: req[r] is the state of request r's handler
    env,         \* the process's environment: credential, bucket name, service data
    fn,          \* harness: the pure function under evaluation ("" in Spec)
    arg,         \* harness: its argument
    ret          \* harness: <<>> before the call, <<outcome>> after it

vars == <<boot, alive, s3, endpoints, fetches, req, env, fn, arg, ret>>

(***************************************************************************)
(* Bounds of the model.                                                    *)
(***************************************************************************)
MaxReq == 2      \* number of requests the server receives
MaxLen == 3      \* longest location constraint of the locator harness

(***************************************************************************)
(* JavaScript values.                                                      *)
(***************************************************************************)
Undefined == <<>>
Some(v) == <<v>>
IsDefined(o) == Len(o) = 1
Val(o) == o[1]

\* Truthiness of an optional string: undefined and "" are falsy.
Truthy(o) == IsDefined(o) /\ Val(o) /= <<>>

Return(v) == [kind |-> "return", value |-> v]
Throw(class, msg) == [kind |-> "throw", value |-> <<class, msg>>]
Returned(o) == o.kind = "return"
Threw(o) == o.kind = "throw"

\* String.prototype.lastIndexOf(ch): 0-based index of the last ch, -1 if none.
LastIndexOf(s, ch) ==
    LET hits == {i \in 1..Len(s) : s[i] = ch}
    IN  IF hits = {} THEN -1
        ELSE (CHOOSE i \in hits : \A j \in hits : j <= i) - 1

\* String.prototype.substring(start, end): arguments below 0 count as 0,
\* above the length as the length, and are swapped when start > end.
Clamp(i, n) == IF i < 0 THEN 0 ELSE IF i > n THEN n ELSE i
Substring(s, start, end) ==
    LET a == Clamp(start, Len(s))
        b == Clamp(end, Len(s))
        lo == IF a <= b THEN a ELSE b
        hi == IF a <= b THEN b ELSE a
    IN  SubSeq(s, lo + 1, hi)

\* String.prototype.startsWith, the Prefix filter of the list-buckets call.
StartsWith(s, p) == Len(p) <= Len(s) /\ SubSeq(s, 1, Len(p)) = p

(***************************************************************************)
(* Credential resolution and client construction (lines 55-102).           *)
(* A client handle is the option object the S3 constructor is given; its   *)
(* endpoint field is the one configureEndpoint overwrites.                 *)
(***************************************************************************)
S3Client(apiKeyId, serviceInstanceId, accessKeyId, secretAccessKey, endpoint) ==
    [apiKeyId |-> apiKeyId, serviceInstanceId |-> serviceInstanceId,
     accessKeyId |-> accessKeyId, secretAccessKey |-> secretAccessKey,
     region |-> "ibm", endpoint |-> endpoint]

getS3_NoKeyCheck(endpoint, serviceCredential) ==
    Return(S3Client(serviceCredential.apikey,
                    serviceCredential.resource_instance_id,
                    Undefined, Undefined, endpoint))

getS3_PreferHmac(endpoint, serviceCredential) ==
    IF IsDefined(serviceCredential.cos_hmac_keys)
       /\ Truthy(Val(serviceCredential.cos_hmac_keys).access_key_id)
    THEN Return(S3Client(Undefined, Undefined,
                         Val(serviceCredential.cos_hmac_keys).access_key_id,
                         Val(serviceCredential.cos_hmac_keys).secret_access_key,
                         endpoint))
    ELSE IF Truthy(serviceCredential.apikey)
    THEN Return(S3Client(serviceCredential.apikey,
                         serviceCredential.resource_instance_id,
                         Undefined, Undefined, endpoint))
    ELSE Throw("Error", "IAM ApiKey required to create S3 Client")

getS3(endpoint, serviceCredential) ==
    IF Truthy(serviceCredential.apikey)
    THEN Return(S3Client(serviceCredential.apikey,
                         serviceCredential.resource_instance_id,
                         Undefined, Undefined, endpoint))
    ELSE Throw("Error", "IAM ApiKey required to create S3 Client")

getS3Hmac(endpoint, serviceCredential) ==
    IF IsDefined(serviceCredential.cos_hmac_keys)
       /\ Truthy(Val(serviceCredential.cos_hmac_keys).access_key_id)
    THEN Return(S3Client(Undefined, Undefined,
                         Val(serviceCredential.cos_hmac_keys).access_key_id,
                         Val(serviceCredential.cos_hmac_keys).secret_access_key,
                         endpoint))
    ELSE Throw("Error", "HMAC credentials required to create S3 Client using HMAC")

\* The authentication mode a client was built for.
ModeOf(client) ==
    IF IsDefined(client.apiKeyId) THEN "IAM"
    ELSE IF IsDefined(client.accessKeyId) THEN "HMAC"
    ELSE "none"

(***************************************************************************)
(* Endpoint resolution (lines 126-137).                                    *)
(* The directory is the parsed JSON document: "service-endpoints" maps     *)
(* each locality class to an object keyed by region; a region's entry has  *)
(* a public object, here the sequence of its <<tag, url>> pairs in key     *)
(* order (the order Object.values follows).                                *)
(***************************************************************************)
Classes == <<"cross-region", "regional", "single-site">>

\* obj[key] of a JavaScript object: undefined when the key is missing.
Get(obj, key) == IF key \in DOMAIN obj THEN Some(obj[key]) ELSE Undefined

regionOf_FirstHyphen(bucket) ==
    IF Truthy(bucket.region) THEN Return(Val(bucket.region))
    ELSE IF ~IsDefined(bucket.LocationConstraint)
    THEN Throw("TypeError", "LocationConstraint")
    ELSE LET lc == Val(bucket.LocationConstraint)
             hyphens == {i \in 1..Len(lc) : lc[i] = "-"}
             first == IF hyphens = {} THEN -1
                      ELSE (CHOOSE i \in hyphens : \A j \in hyphens : i <= j) - 1
         IN  Return(Substring(lc, 0, first))

\* Line 127: bucket.region || LocationConstraint.substring(0, lastIndexOf('-')).
regionOf(bucket) ==
    IF Truthy(bucket.region) THEN Return(Val(bucket.region))
    ELSE IF ~IsDefined(bucket.LocationConstraint)
    THEN Throw("TypeError", "LocationConstraint")
    ELSE LET lc == Val(bucket.LocationConstraint)
         IN  Return(Substring(lc, 0, LastIndexOf(lc, "-")))

\* a[region] || b[region] || c[region] over the classes of `order` from
\* position i on: reading a class the document lacks throws; an entry is an
\* object, so it is truthy whenever it is there.
RECURSIVE RegionUrlsFrom(_, _, _, _)
RegionUrlsFrom(serviceEndpoints, order, i, region) ==
    LET class == Get(serviceEndpoints, order[i])
    IN  IF ~IsDefined(class) THEN Throw("TypeError", order[i])
        ELSE LET hit == Get(Val(class), region)
             IN  IF IsDefined(hit) \/ i = Len(order) THEN Return(hit)
                 ELSE RegionUrlsFrom(serviceEndpoints, order, i + 1, region)

RegionUrls_RegionalFirst(serviceEndpoints, region) ==
    RegionUrlsFrom(serviceEndpoints,
                   <<"regional", "cross-region", "single-site">>, 1, region)

\* Lines 129-131.
RegionUrls(serviceEndpoints, region) ==
    RegionUrlsFrom(serviceEndpoints, Classes, 1, region)

\* Lines 133-136: '' when public is missing or empty, else its first value.
PublicUrl(regionUrls) ==
    IF ~IsDefined(regionUrls.public) \/ Len(Val(regionUrls.public)) = 0
    THEN <<>>
    ELSE Val(regionUrls.public)[1][2]

\* Lines 128-136: the URL of a region key.
resolveURL(directory, region) ==
    LET serviceEndpoints == Get(directory, "service-endpoints")
    IN  IF ~IsDefined(serviceEndpoints) THEN Throw("TypeError", "cross-region")
        ELSE LET regionUrls == RegionUrls(Val(serviceEndpoints), region)
             IN  IF Threw(regionUrls) THEN regionUrls
                 ELSE IF ~IsDefined(regionUrls.value)
                 THEN Throw("TypeError", "public")
                 ELSE Return(PublicUrl(Val(regionUrls.value)))

findBucketEndpoint(bucket, directory) ==
    IF ~IsDefined(bucket) THEN Throw("TypeError", "region")
    ELSE LET region == regionOf(Val(bucket))
         IN  IF Threw(region) THEN region
             ELSE resolveURL(directory, region.value)

(***************************************************************************)
(* Inputs of the pure functions.                                           *)
(***************************************************************************)
Alphabet == {"a", "-"}

\* The strings over Alphabet of length at most n.
Strings(n) == UNION {[1..k -> Alphabet] : k \in 0..n}

Optional(S) == {Undefined} \cup {Some(x) : x \in S}

HmacKeys ==
    [access_key_id : Optional({<<>>, <<"A">>}),
     secret_access_key : Optional({<<"S">>})]

Credentials ==
    [apikey : Optional({<<>>, <<"K">>}),
     resource_instance_id : Optional({<<"R">>}),
     cos_hmac_keys : Optional(HmacKeys),
     endpoints : {Some(<<"https://control/v2/endpoints">>)}]

defaultEndpoint == <<"s3.us.cloud-object-storage.appdomain.cloud">>

\* The URL a directory publishes for a region of a class under a tag.
Url(class, region, tag) == <<"https://", tag, class>> \o region

\* What a class of the document holds for a region key.
EntryKinds == {"noclass", "nokey", "nopublic", "empty", "one", "two"}

Entry(class, region, kind) ==
    [public |->
        CASE kind = "nopublic" -> Undefined
          [] kind = "empty" -> Some(<<>>)
          [] kind = "one" -> Some(<< <<"public", Url(class, region, "public")>> >>)
          [] kind = "two" -> Some(<< <<"public", Url(class, region, "public")>>,
                                     <<"direct", Url(class, region, "direct")>> >>)]

\* The document whose class Classes[i] holds kinds[i] for the one key `region`.
Directory(region, kinds) ==
    LET present == {i \in 1..3 : kinds[i] /= "noclass"}
        class(i) == IF kinds[i] = "nokey" THEN <<>>
                    ELSE (region :> Entry(Classes[i], region, kinds[i]))
    IN  "service-endpoints" :>
            [c \in {Classes[i] : i \in present} |->
                class(CHOOSE i \in present : Classes[i] = c)]

RegionKeys == Strings(MaxLen - 1)

Directories ==
    {<<>>} \cup {Directory(k, kinds) : k \in RegionKeys, kinds \in [1..3 -> EntryKinds]}

Descriptors ==
    [Name : {<<"b">>},
     region : Optional({<<>>, <<"a">>, <<"-", "a">>}),
     LocationConstraint : Optional(Strings(MaxLen))]

(***************************************************************************)
(* The pure functions on their own: FnSpec draws a function and its        *)
(* argument and applies the function once.                                 *)
(***************************************************************************)
Idle ==
    /\ boot = "start" /\ alive = TRUE /\ s3 = Undefined /\ endpoints = Undefined
    /\ fetches = 0 /\ req = <<>> /\ env = <<>>

FnInit ==
    /\ Idle
    /\ ret = Undefined
    /\ \/ fn \in {"getS3", "getS3Hmac"}
          /\ arg \in [endpoint : {defaultEndpoint, <<>>},
                      serviceCredential : Credentials]
       \/ fn = "regionOf" /\ arg \in [bucket : Descriptors]
       \/ fn = "resolveURL"
          /\ arg \in [directory : Directories, region : RegionKeys]
       \/ fn = "findBucketEndpoint"
          /\ arg \in [bucket : Optional(Descriptors), directory : Directories]

FnFrame == UNCHANGED <<boot, alive, s3, endpoints, fetches, req, env, fn, arg>>

CallGetS3 ==
    /\ fn = "getS3" /\ ret = Undefined
    /\ ret' = Some(getS3(arg.endpoint, arg.serviceCredential))
    /\ FnFrame

CallGetS3Hmac ==
    /\ fn = "getS3Hmac" /\ ret = Undefined
    /\ ret' = Some(getS3Hmac(arg.endpoint, arg.serviceCredential))
    /\ FnFrame

CallRegionOf ==
    /\ fn = "regionOf" /\ ret = Undefined
    /\ ret' = Some(regionOf(arg.bucket))
    /\ FnFrame

CallResolveURL ==
    /\ fn = "resolveURL" /\ ret = Undefined
    /\ ret' = Some(resolveURL(arg.directory, arg.region))
    /\ FnFrame

CallFindBucketEndpoint ==
    /\ fn = "findBucketEndpoint" /\ ret = Undefined
    /\ ret' = Some(findBucketEndpoint(arg.bucket, arg.directory))
    /\ FnFrame

FnNext ==
    \/ CallGetS3
    \/ CallGetS3Hmac
    \/ CallRegionOf
    \/ CallResolveURL
    \/ CallFindBucketEndpoint

FnSpec == FnInit /\ [][FnNext]_vars

(***************************************************************************)
(* The server process.                                                     *)
(*                                                                         *)
(* env is what the process is started in: the credential of the .env file, *)
(* the configured bucket name, the document the directory URL serves and   *)
(* the buckets of the credential's service instance.                       *)
(***************************************************************************)
Routes == {"upload", "deleteList", "delete", "buckets", "listAll", "getObject"}

\* The routes that rebind the handle and then call the storage service.
BucketScoped == Routes \ {"buckets"}

\* The routes that take the bucket from the URL (req.params.bucket).
ParamRoutes == {"listAll", "getObject"}

\* Every bucket of the storage service, in name order; bucket names are
\* global, and a service instance lists its own buckets only.
AllBuckets ==
    << [Name |-> <<"a">>, region |-> Undefined,
        LocationConstraint |-> Some(<<"u", "-", "s">>)],
       [Name |-> <<"a", "b">>, region |-> Undefined,
        LocationConstraint |-> Some(<<"e", "-", "s">>)],
       [Name |-> <<"b">>, region |-> Undefined,
        LocationConstraint |-> Some(<<"n">>)] >>

\* Bucket names a request may carry in its URL; <<"c">> names no bucket.
ParamNames == {<<"a", "b">>, <<"b">>, <<"c">>}

\* Documents the directory URL may serve: region u is published under
\* regional, region e is published, published without a URL, or missing.
ServerDirectories ==
    {"service-endpoints" :>
        [c \in {Classes[i] : i \in 1..3} |->
            IF c = "regional"
            THEN IF kind = "nokey"
                 THEN (<<"u">> :> Entry(c, <<"u">>, "one"))
                 ELSE (<<"u">> :> Entry(c, <<"u">>, "one"))
                      @@ (<<"e">> :> Entry(c, <<"e">>, kind))
            ELSE <<>>]
     : kind \in {"one", "empty", "nokey"}}

ServerCredentials ==
    {c \in Credentials :
        /\ IsDefined(c.resource_instance_id)
        /\ c.apikey \in {Undefined, Some(<<"K">>)}
        /\ c.cos_hmac_keys \in
              {Undefined, Some([access_key_id |-> Some(<<"A">>),
                                secret_access_key |-> Some(<<"S">>)])}
        /\ IsDefined(c.apikey) => ~IsDefined(c.cos_hmac_keys)}

Envs ==
    [dotenv : ServerCredentials,
     BUCKETNAME : {<<"a">>},
     directory : ServerDirectories,
     listed : {{1, 2, 3}, {2, 3}}]

\* Lines 38-51: CONFIG copies the IAM fields of the credential only.
CONFIG ==
    [useHmac |-> FALSE,
     bucketName |-> env.BUCKETNAME,
     serviceCredential |->
        [apikey |-> env.dotenv.apikey,
         endpoints |-> env.dotenv.endpoints,
         resource_instance_id |-> env.dotenv.resource_instance_id,
         cos_hmac_keys |-> Undefined]]

\* Line 219: the buckets of the instance whose name starts with the prefix,
\* in the service's listing order.
listBucketsExtended(Prefix) ==
    LET F[i \in 0..Len(AllBuckets)] ==
            IF i = 0 THEN <<>>
            ELSE IF i \in env.listed /\ StartsWith(AllBuckets[i].Name, Prefix)
                 THEN Append(F[i - 1], AllBuckets[i])
                 ELSE F[i - 1]
    IN  [Buckets |-> F[Len(AllBuckets)]]

First_Last(seq) == IF Len(seq) = 0 THEN Undefined ELSE Some(seq[Len(seq)])

\* Buckets[0]: undefined for an empty list.
First(seq) == IF Len(seq) = 0 THEN Undefined ELSE Some(seq[1])

NewRequest ==
    [route |-> "", bucket |-> <<>>, pc |-> "new", rebind |-> "none",
     lists |-> 0,
     issued |-> Undefined, sends |-> 0, overlapped |-> FALSE]

Requests == 1..MaxReq

InFlight(r) == req[r].pc \in {"listing", "calling"}

Init ==
    /\ boot = "start"
    /\ alive = TRUE
    /\ s3 = Undefined
    /\ endpoints = Undefined
    /\ fetches = 0
    /\ req = [r \in Requests |-> NewRequest]
    /\ env \in Envs
    /\ fn = "" /\ arg = <<>> /\ ret = Undefined

\* A promise nobody handles was rejected: Node 15 and later end the process,
\* earlier versions log a warning and go on.
UnhandledRejection == alive' \in {TRUE, FALSE}

\* Lines 394-398, up to the first suspension: getS3 builds the client or
\* throws; the directory GET of getEndpoints is issued.
ListenCallback ==
    /\ alive /\ boot = "start"
    /\ LET client == getS3(defaultEndpoint, CONFIG.serviceCredential)
       IN  IF Returned(client)
           THEN /\ s3' = Some(client.value)
                /\ fetches' = fetches + 1
                /\ boot' = "fetching"
                /\ UNCHANGED alive
           ELSE /\ boot' = "failed"
                /\ UnhandledRejection
                /\ UNCHANGED <<s3, fetches>>
    /\ UNCHANGED <<endpoints, req, env, fn, arg, ret>>

\* Lines 118-119 and 396: the GET returns and its body parses, or the
\* request or the parse fails and the callback's promise is rejected.
FetchReturns ==
    /\ alive /\ boot = "fetching"
    /\ \E ok \in BOOLEAN :
          IF ok
          THEN /\ endpoints' = Some(env.directory)
               /\ boot' = "ready"
               /\ UNCHANGED alive
          ELSE /\ boot' = "failed"
               /\ UnhandledRejection
               /\ UNCHANGED endpoints
    /\ UNCHANGED <<s3, fetches, req, env, fn, arg, ret>>

\* What a handler does once configureEndpoint has settled with `outcome`:
\* await rethrows a rejection, so the storage call is issued only after a
\* rebind that returned.
AfterRebind_Swallow(outcome) == "calling"

AfterRebind(outcome) == IF Returned(outcome) THEN "calling" ELSE "rejected"

\* A request arrives (requests are numbered in their order of arrival) and
\* its handler runs to its first suspension: the validation of lines 275-281
\* and 331-333, then listBuckets (line 226 via configureEndpoint, or line
\* 360), which reads the global s3. lists counts the list-buckets calls that
\* configureEndpoint has issued for the request.
Receive(r) ==
    /\ alive /\ boot /= "start" /\ req[r].pc = "new"
    /\ \A q \in Requests : q < r => req[q].pc /= "new"
    /\ \E route \in Routes, param \in ParamNames, valid \in BOOLEAN :
          LET bucket == IF route \in ParamRoutes THEN param ELSE CONFIG.bucketName
              others == {q \in Requests \ {r} : InFlight(q)}
              started == [req[r] EXCEPT !.route = route, !.bucket = bucket]
              mark(rq) == [q \in Requests |->
                             IF q = r THEN [rq EXCEPT !.overlapped = others /= {}]
                             ELSE IF q \in others
                                  THEN [req[q] EXCEPT !.overlapped = TRUE]
                                  ELSE req[q]]
          IN  /\ route \in ParamRoutes \/ param = <<"c">>
              /\ route \in {"upload", "delete"} \/ valid
              /\ IF ~valid
                 THEN /\ req' = mark([started EXCEPT !.pc = "done", !.sends = 1])
                      /\ UNCHANGED alive
                 ELSE IF ~IsDefined(s3)
                 THEN /\ req' = mark([started EXCEPT !.pc = "rejected"])
                      /\ UnhandledRejection
                 ELSE IF route = "buckets"
                 THEN /\ req' = mark([started EXCEPT !.pc = "calling"])
                      /\ UNCHANGED alive
                 ELSE /\ req' = mark([started EXCEPT !.pc = "listing",
                                                     !.rebind = "pending",
                                                     !.lists = @ + 1])
                      /\ UNCHANGED alive
    /\ UNCHANGED <<boot, s3, endpoints, fetches, env, fn, arg, ret>>

configureEndpoint_Relative(bucketName, ok) ==
    IF ~ok THEN Throw("ReferenceError", "res")
    ELSE LET bucketsData == listBucketsExtended(bucketName)
             myBucket == First(bucketsData.Buckets)
         IN  IF ~IsDefined(endpoints) THEN Throw("ReferenceError", "endpoints")
             ELSE LET url == findBucketEndpoint(myBucket, Val(endpoints))
                  IN  IF Returned(url)
                      THEN Return(Val(s3).endpoint \o url.value)
                      ELSE url

\* Lines 226-231 after the list-buckets call has settled: the result of
\* configureEndpoint. A failed call runs the catch of line 228, whose `res`
\* is not defined; a read of the global endpoints before line 396 has
\* assigned it is a ReferenceError as well.
configureEndpoint(bucketName, ok) ==
    IF ~ok THEN Throw("ReferenceError", "res")
    ELSE LET bucketsData == listBucketsExtended(bucketName)
             myBucket == First(bucketsData.Buckets)
         IN  IF ~IsDefined(endpoints) THEN Throw("ReferenceError", "endpoints")
             ELSE findBucketEndpoint(myBucket, Val(endpoints))

Rebound_ClearFirst(outcome) ==
    Some([Val(s3) EXCEPT !.endpoint =
            IF Returned(outcome) THEN outcome.value ELSE <<>>])

\* Line 231: the handle after configureEndpoint has settled with `outcome`;
\* the assignment runs only when findBucketEndpoint has returned.
Rebound(outcome) ==
    IF Returned(outcome)
    THEN Some([Val(s3) EXCEPT !.endpoint = outcome.value])
    ELSE s3

ListBucketsReturns_OwnHandle(r) ==
    /\ alive /\ req[r].pc = "listing"
    /\ \E ok \in BOOLEAN :
          LET outcome == configureEndpoint(req[r].bucket, ok)
              next == AfterRebind(outcome)
          IN  /\ req' = [req EXCEPT ![r] =
                    [@ EXCEPT !.rebind = IF Returned(outcome) THEN "done" ELSE "failed",
                              !.pc = next,
                              !.issued = IF next = "calling"
                                         THEN Some(outcome.value) ELSE @]]
              /\ IF next = "rejected" THEN UnhandledRejection ELSE UNCHANGED alive
    /\ UNCHANGED <<boot, s3, endpoints, fetches, env, fn, arg, ret>>

\* The list-buckets call of request r's configureEndpoint settles; line 231
\* rebinds the handle, and the handler goes on to issue its storage call.
ListBucketsReturns(r) ==
    /\ alive /\ req[r].pc = "listing"
    /\ \E ok \in BOOLEAN :
          LET outcome == configureEndpoint(req[r].bucket, ok)
              next == AfterRebind(outcome)
              bound == Rebound(outcome)
          IN  /\ s3' = bound
              /\ req' = [req EXCEPT ![r] =
                    [@ EXCEPT !.rebind = IF Returned(outcome) THEN "done" ELSE "failed",
                              !.pc = next,
                              !.issued = IF next = "calling"
                                         THEN Some(Val(bound).endpoint) ELSE @]]
              /\ IF next = "rejected" THEN UnhandledRejection ELSE UNCHANGED alive
    /\ UNCHANGED <<boot, endpoints, fetches, env, fn, arg, ret>>

\* The storage call of request r settles and its handler runs to its end:
\* upload and delete answer in try and in catch (lines 295-306, 342-353);
\* deleteList has no catch (line 315); the other routes send the error in
\* their catch and then send again (lines 360-364, 373-377, 385-389), and
\* whether the second send throws is up to the framework.
StorageCallReturns(r) ==
    /\ alive /\ req[r].pc = "calling"
    /\ \E ok \in BOOLEAN, throws \in BOOLEAN :
          LET route == req[r].route
          IN  /\ (ok \/ route \in {"upload", "delete", "deleteList"}) => ~throws
              /\ IF ok \/ route \in {"upload", "delete"}
                 THEN /\ req' = [req EXCEPT ![r].pc = "done", ![r].sends = @ + 1]
                      /\ UNCHANGED alive
                 ELSE IF route = "deleteList"
                 THEN /\ req' = [req EXCEPT ![r].pc = "rejected"]
                      /\ UnhandledRejection
                 ELSE IF throws
                 THEN /\ req' = [req EXCEPT ![r].pc = "rejected", ![r].sends = @ + 2]
                      /\ UnhandledRejection
                 ELSE /\ req' = [req EXCEPT ![r].pc = "done", ![r].sends = @ + 2]
                      /\ UNCHANGED alive
    /\ UNCHANGED <<boot, s3, endpoints, fetches, env, fn, arg, ret>>

Next ==
    \/ ListenCallback
    \/ FetchReturns
    \/ \E r \in Requests : Receive(r)
    \/ \E r \in Requests : ListBucketsReturns(r)
    \/ \E r \in Requests : StorageCallReturns(r)

Spec == Init /\ [][Next]_vars

(***************************************************************************)
(* Properties of the server, checked under Spec.                           *)
(***************************************************************************)
\* C1: a bucket-scoped operation's storage call is issued only once that
\* operation's own rebind has completed: never while the rebind is pending,
\* never after it failed.
C1_RebindBeforeCall ==
    \A r \in Requests :
        (req[r].route \in BucketScoped /\ IsDefined(req[r].issued)) =>
            req[r].rebind = "done"

C1_Witness ==
    \E r \in Requests :
        /\ req[r].route \in BucketScoped
        /\ req[r].pc = "calling"
        /\ req[r].rebind = "done"
        /\ IsDefined(req[r].issued)

\* The record of the bucket called `name`, if there is such a bucket.
BucketNamed(name) ==
    LET hits == {i \in 1..Len(AllBuckets) : AllBuckets[i].Name = name}
    IN  IF hits = {} THEN Undefined ELSE Some(AllBuckets[CHOOSE i \in hits : TRUE])

\* C2: when no other operation overlaps it, a bucket-scoped operation issues
\* its storage call with the handle's endpoint equal to the URL the
\* directory gives for the region of the bucket the call targets.
C2_EndpointMatchesTarget ==
    \A r \in Requests :
        (/\ req[r].route \in BucketScoped
         /\ IsDefined(req[r].issued)
         /\ ~req[r].overlapped
         /\ IsDefined(BucketNamed(req[r].bucket))) =>
            LET url == findBucketEndpoint(BucketNamed(req[r].bucket), Val(endpoints))
            IN  Returned(url) /\ Val(req[r].issued) = url.value

\* C3: the directory is fetched at most once, and no handler runs rebind
\* while the client handle or the directory is still unset.
C3_FetchBeforeOperations ==
    /\ fetches <= 1
    /\ \A r \in Requests :
          req[r].rebind /= "none" => (IsDefined(s3) /\ IsDefined(endpoints))

\* C5: started with a credential that has no apikey and a non-empty HMAC
\* access key id, the process builds its client in HMAC mode, bound to the
\* credential's access key id and secret access key.
C5_HmacCredentialBuildsHmacClient ==
    (boot /= "start" /\ ~Truthy(env.dotenv.apikey)
     /\ IsDefined(env.dotenv.cos_hmac_keys)
     /\ Truthy(Val(env.dotenv.cos_hmac_keys).access_key_id)) =>
        /\ IsDefined(s3)
        /\ ModeOf(Val(s3)) = "HMAC"
        /\ Val(s3).accessKeyId = Val(env.dotenv.cos_hmac_keys).access_key_id
        /\ Val(s3).secretAccessKey = Val(env.dotenv.cos_hmac_keys).secret_access_key

(***************************************************************************)
(* Properties of the pure functions, checked under FnSpec.                 *)
(***************************************************************************)
Called(f) == fn = f /\ IsDefined(ret)

HasHmacKey(serviceCredential) ==
    /\ IsDefined(serviceCredential.cos_hmac_keys)
    /\ Truthy(Val(serviceCredential.cos_hmac_keys).access_key_id)

\* C4: for a credential whose apikey is non-empty, getS3 returns a client in
\* IAM mode whose apiKeyId and serviceInstanceId are the credential's apikey
\* and resource_instance_id and which carries no HMAC key, whether or not the
\* credential also holds cos_hmac_keys.
C4_ApiKeySelectsIAM ==
    (Called("getS3") /\ Truthy(arg.serviceCredential.apikey)) =>
        /\ Returned(Val(ret))
        /\ ModeOf(Val(ret).value) = "IAM"
        /\ Val(ret).value.apiKeyId = arg.serviceCredential.apikey
        /\ Val(ret).value.serviceInstanceId = arg.serviceCredential.resource_instance_id
        /\ Val(ret).value.accessKeyId = Undefined
        /\ Val(ret).value.secretAccessKey = Undefined

C4_Witness ==
    /\ Called("getS3")
    /\ Truthy(arg.serviceCredential.apikey)
    /\ HasHmacKey(arg.serviceCredential)
    /\ Returned(Val(ret))
    /\ ModeOf(Val(ret).value) = "IAM"

\* The errors the two resolvers throw on purpose for unusable credentials.
CredentialErrors ==
    {<<"Error", "IAM ApiKey required to create S3 Client">>,
     <<"Error", "HMAC credentials required to create S3 Client using HMAC">>}

\* C6: for a credential with neither a non-empty apikey nor a non-empty HMAC
\* access key id, getS3 and getS3Hmac both throw their credential error and
\* return no client.
C6_NoCredentialFails ==
    ((Called("getS3") \/ Called("getS3Hmac"))
     /\ ~Truthy(arg.serviceCredential.apikey)
     /\ ~HasHmacKey(arg.serviceCredential)) =>
        /\ Threw(Val(ret))
        /\ Val(ret).value \in CredentialErrors

C6_Witness ==
    /\ Called("getS3")
    /\ arg.serviceCredential.apikey = Some(<<>>)
    /\ IsDefined(arg.serviceCredential.cos_hmac_keys)
    /\ ~HasHmacKey(arg.serviceCredential)
    /\ Threw(Val(ret))

HasHyphen(s) == \E i \in 1..Len(s) : s[i] = "-"

\* p is s cut before its last hyphen: s = p - rest, rest without a hyphen.
IsCutAtLastHyphen(p, s) ==
    /\ Len(p) < Len(s)
    /\ s[Len(p) + 1] = "-"
    /\ \A i \in 1..Len(p) : p[i] = s[i]
    /\ \A i \in (Len(p) + 2)..Len(s) : s[i] /= "-"

\* C7: regionOf returns descriptor.region verbatim when it is set (a
\* non-empty string); otherwise, for a location constraint with at least one
\* hyphen, it returns the part of it before its last hyphen.
C7_RegionOf ==
    Called("regionOf") =>
        /\ Truthy(arg.bucket.region) =>
              Val(ret) = Return(Val(arg.bucket.region))
        /\ (~Truthy(arg.bucket.region)
            /\ IsDefined(arg.bucket.LocationConstraint)
            /\ HasHyphen(Val(arg.bucket.LocationConstraint))) =>
              /\ Returned(Val(ret))
              /\ IsCutAtLastHyphen(Val(ret).value, Val(arg.bucket.LocationConstraint))

C7_Witness ==
    /\ Called("regionOf")
    /\ ~IsDefined(arg.bucket.region)
    /\ arg.bucket.LocationConstraint = Some(<<"a", "-", "-">>)
    /\ Val(ret) = Return(<<"a", "-">>)

\* C8: for a descriptor with no region whose location constraint has no
\* hyphen, regionOf fails instead of returning a region key.
C8_NoHyphenFails ==
    (Called("regionOf")
     /\ ~Truthy(arg.bucket.region)
     /\ IsDefined(arg.bucket.LocationConstraint)
     /\ ~HasHyphen(Val(arg.bucket.LocationConstraint))) =>
        Threw(Val(ret))

\* A directory of the documented shape: all three locality classes are there.
WellFormed(directory) ==
    /\ "service-endpoints" \in DOMAIN directory
    /\ \A i \in 1..3 : Classes[i] \in DOMAIN directory["service-endpoints"]

\* The positions in Classes of the classes that hold the region key.
Holders(directory, region) ==
    {i \in 1..3 : region \in DOMAIN directory["service-endpoints"][Classes[i]]}

Least(S) == CHOOSE i \in S : \A j \in S : i <= j

PublicUrls(entry) ==
    IF IsDefined(entry.public)
    THEN {Val(entry.public)[i][2] : i \in 1..Len(Val(entry.public))}
    ELSE {}

\* C9: on a directory with its three classes, when some class holds the
\* region, resolveURL resolves from the first of cross-region, regional,
\* single-site that holds it: if that entry has public URLs, the result is
\* one of them.
C9_PriorityOrder ==
    (Called("resolveURL") /\ WellFormed(arg.directory)
     /\ Holders(arg.directory, arg.region) /= {}) =>
        LET c == Classes[Least(Holders(arg.directory, arg.region))]
            entry == arg.directory["service-endpoints"][c][arg.region]
        IN  PublicUrls(entry) /= {} =>
                /\ Returned(Val(ret))
                /\ Val(ret).value \in PublicUrls(entry)

C9_Witness ==
    /\ Called("resolveURL") /\ WellFormed(arg.directory)
    /\ Holders(arg.directory, arg.region) = {2, 3}
    /\ Returned(Val(ret))
    /\ Val(ret).value = Url("regional", arg.region, "public")

\* C10: on a directory with its three classes none of which holds the region,
\* resolveURL fails with a region-not-found error.
C10_RegionNotFound ==
    (Called("resolveURL") /\ WellFormed(arg.directory)
     /\ Holders(arg.directory, arg.region) = {}) =>
        /\ Threw(Val(ret))
        /\ Val(ret).value[1] = "RegionNotFoundError"

(***************************************************************************)
(* Properties of rebinding and of the route handlers, checked under Spec.  *)
(***************************************************************************)
\* C11: rebind never leaves the handle with the empty string as endpoint: a
\* matched entry without a public URL makes the resolution fail.
C11_EndpointNeverEmpty ==
    IsDefined(s3) => Val(s3).endpoint /= <<>>

\* The first record the list-buckets call returns for a prefix: the listed
\* bucket of least position whose name starts with it.
Matching(prefix) ==
    {i \in env.listed : StartsWith(AllBuckets[i].Name, prefix)}

\* A bucket record's location constraint names no region: it has no hyphen.
Underivable(bucket) ==
    /\ ~Truthy(bucket.region)
    /\ \/ ~IsDefined(bucket.LocationConstraint)
       \/ ~HasHyphen(Val(bucket.LocationConstraint))

\* The region keys a location constraint is cut to at its last hyphen.
CutsOf(lc) == {p \in {SubSeq(lc, 1, k) : k \in 0..Len(lc)} : IsCutAtLastHyphen(p, lc)}

\* The entry the directory holds for a region, taken from the first class
\* that holds it.
EntryOf(directory, region) ==
    directory["service-endpoints"][Classes[Least(Holders(directory, region))]][region]

\* A rebind for this bucket name has a step that fails: no record is
\* returned, the first record's region cannot be derived or is in no class,
\* or its entry has no public URL.
StepFails(bucketName) ==
    \/ Matching(bucketName) = {}
    \/ LET bucket == AllBuckets[Least(Matching(bucketName))]
       IN  \/ Underivable(bucket)
           \/ \E region \in CutsOf(Val(bucket.LocationConstraint)) :
                 \/ Holders(env.directory, region) = {}
                 \/ PublicUrls(EntryOf(env.directory, region)) = {}

\* C12: a rebind one of whose steps fails is surfaced to the handler as a
\* failed rebind (the handler is rejected and issues no storage call), and a
\* rebind issues its list-buckets call once only.
C12_FailuresSurface ==
    \A r \in Requests :
        /\ req[r].lists <= 1
        /\ (req[r].rebind \in {"done", "failed"} /\ StepFails(req[r].bucket)) =>
              (req[r].rebind = "failed" /\ ~IsDefined(req[r].issued))

\* C13: two rebinds of the handle for the same bucket name leave it with the
\* same endpoint, whatever its endpoint was before each of them.
C13_RebindIdempotent ==
    \A r, q \in Requests :
        (/\ req[r].rebind = "done" /\ req[q].rebind = "done"
         /\ req[r].bucket = req[q].bucket) =>
            req[r].issued = req[q].issued

C13_Witness ==
    \E r, q \in Requests :
        /\ r /= q
        /\ req[r].rebind = "done" /\ req[q].rebind = "done"
        /\ req[r].bucket = req[q].bucket
        /\ req[r].issued = req[q].issued
        /\ Val(req[r].issued) = Url("regional", <<"u">>, "public")

\* C14: once the directory fetch has failed, the process is still running
\* and no bucket-scoped request is being processed.
C14_FetchFailureNotReady ==
    (boot = "failed" /\ IsDefined(s3)) =>
        /\ alive
        /\ \A r \in Requests : ~(req[r].route \in BucketScoped /\ InFlight(r))

\* C15: the handle is shared by the operations: whenever a storage call is
\* in flight and the handle's endpoint is no longer the one the call was
\* issued with, the endpoint is the one another operation's rebind has set.
C15_OtherRebindOverwrites ==
    \A r \in Requests :
        (/\ req[r].route \in BucketScoped /\ req[r].pc = "calling"
         /\ Val(s3).endpoint /= Val(req[r].issued)) =>
            \E q \in Requests \ {r} :
                /\ req[q].rebind = "done"
                /\ Val(req[q].issued) = Val(s3).endpoint

\* The race: the call on bucket a (region u) is in flight while the handle
\* points at region e, set by the rebind for bucket ab.
C15_Witness ==
    \E r, q \in Requests :
        /\ req[r].rebind = "done" /\ req[q].rebind = "done"
        /\ req[r].pc = "calling" /\ req[r].bucket = <<"a">>
        /\ Val(req[r].issued) = Url("regional", <<"u">>, "public")
        /\ req[q].pc = "calling" /\ req[q].bucket = <<"a", "b">>
        /\ Val(req[q].issued) = Url("regional", <<"e">>, "public")
        /\ Val(s3).endpoint = Url("regional", <<"e">>, "public")

\* C16: a completed rebind has bound the handle to the endpoint of the first
\* record returned for the prefix: a public URL of the entry of that
\* record's region ('' if it has none), whether or not the record is the
\* bucket that was named.
C16_FirstRecordWins ==
    \A r \in Requests :
        req[r].rebind = "done" =>
            /\ Matching(req[r].bucket) /= {}
            /\ LET bucket == AllBuckets[Least(Matching(req[r].bucket))]
               IN  \E region \in CutsOf(Val(bucket.LocationConstraint)) :
                       /\ Holders(env.directory, region) /= {}
                       /\ LET urls == PublicUrls(EntryOf(env.directory, region))
                          IN  Val(req[r].issued) \in
                                  (IF urls = {} THEN {<<>>} ELSE urls)

C16_Witness ==
    \E r \in Requests :
        /\ req[r].rebind = "done"
        /\ req[r].bucket = <<"a">>
        /\ AllBuckets[Least(Matching(req[r].bucket))].Name = <<"a", "b">>
        /\ Val(req[r].issued) = Url("regional", <<"e">>, "public")

\* C17: a rebind that fails leaves the handle as it was, and the handle's
\* endpoint changes only in a step in which a rebind completes, to the URL
\* that rebind resolved.
C17_FailedRebindKeepsEndpoint ==
    [][/\ \A r \in Requests :
             (req[r].rebind = "pending" /\ req'[r].rebind = "failed") => s3' = s3
       /\ (IsDefined(s3) /\ s3' /= s3) =>
             \E r \in Requests :
                 /\ req[r].rebind = "pending" /\ req'[r].rebind = "done"
                 /\ Val(s3').endpoint = Val(req'[r].issued)]_vars

C17_Witness ==
    \E r, q \in Requests :
        /\ req[q].rebind = "done"
        /\ req[r].rebind = "failed" /\ q < r
        /\ req[q].pc = "done"
        /\ Val(s3).endpoint = Val(req[q].issued)
        /\ Val(s3).endpoint /= defaultEndpoint

\* C18: the handler of a bucket route calls res.send at most once for its
\* request.
C18_AtMostOneResponse ==
    \A r \in Requests :
        req[r].route \in BucketScoped => req[r].sends <= 1

\* C19: a bucket-scoped handler whose rebind failed has answered its request
\* by the time it ends.
C19_FailedRebindIsAnswered ==
    \A r \in Requests :
        (/\ req[r].route \in BucketScoped
         /\ req[r].rebind = "failed"
         /\ req[r].pc \in {"done", "rejected"}) =>
            req[r].sends >= 1

====
